---- MODULE Spec2Model ----
(***************************************************************************)
(* Model of updated_website_0704.py: a Streamlit dashboard that filters a  *)
(* materials dataset and ranks the surviving materials with TOPSIS or      *)
(* PROMETHEE II.                                                           *)
(*                                                                         *)
(* Numbers are exact: a float is modelled by the rational it stands for.   *)
(*   - a weight vector is [num |-> <<n1..nk>>, den |-> d] in lowest terms; *)
(*   - a score value is one of                                             *)
(*       [k |-> "frac", n |-> a, d |-> b]   the rational a/b, b > 0,       *)
(*       [k |-> "close", dm |-> a, dp |-> b] the TOPSIS closeness          *)
(*                   sqrt(a) / (sqrt(a) + sqrt(b)), a and b not both 0,    *)
(*       [k |-> "nan"]                      the float NaN (0/0).           *)
(* A DataFrame is a sequence of rows; a row is a function from column      *)
(* names to values and carries its index label in the "idx" field.         *)
(***************************************************************************)
EXTENDS Integers, Sequences, FiniteSets, TLC

(***************************************************************************)
(* Arithmetic helpers                                                      *)
(***************************************************************************)
Abs(x) == IF x < 0 THEN -x ELSE x

RECURSIVE GCD(_, _)
GCD(a, b) == IF b = 0 THEN Abs(a) ELSE GCD(b, a % b)

RECURSIVE SumSeq(_)
SumSeq(s) == IF s = <<>> THEN 0 ELSE Head(s) + SumSeq(Tail(s))

RECURSIVE GCDSeq(_)
GCDSeq(s) == IF s = <<>> THEN 0 ELSE GCD(Head(s), GCDSeq(Tail(s)))

RECURSIVE ProdSeq(_)
ProdSeq(s) == IF s = <<>> THEN 1 ELSE Head(s) * ProdSeq(Tail(s))

SetMax(S) == CHOOSE x \in S : \A y \in S : y <= x
SetMin(S) == CHOOSE x \in S : \A y \in S : x <= y

Range(s) == {s[i] : i \in DOMAIN s}

\* the rational n/d (d > 0) in lowest terms
Frac(n, d) ==
    LET g == GCD(n, d)
    IN  [k |-> "frac", n |-> n \div g, d |-> d \div g]

NaN == [k |-> "nan"]

\* numpy float division n/d: 0/0 is nan (RuntimeWarning, no exception)
FloatDiv(n, d) == IF d = 0 THEN NaN ELSE Frac(n, d)

\* sqrt(a)/(sqrt(a)+sqrt(b)) in canonical form; 0/0 is nan
Closeness(a, b) ==
    IF a = 0 /\ b = 0 THEN NaN
    ELSE LET g == GCD(a, b)
         IN  [k |-> "close", dm |-> a \div g, dp |-> b \div g]

IsNaN(x) == x.k = "nan"

\* IEEE "<" on score values: false whenever an operand is nan
Less(x, y) ==
    IF IsNaN(x) \/ IsNaN(y) THEN FALSE
    ELSE IF x.k = "frac" THEN x.n * y.d < y.n * x.d
    ELSE x.dm * y.dp < y.dm * x.dp

\* IEEE "==" on score values: nan is not equal to itself
FloatEq(x, y) == ~IsNaN(x) /\ ~IsNaN(y) /\ x = y

(***************************************************************************)
(* Column names and the criteria of the MCDM page                          *)
(***************************************************************************)
BANDGAP == "Bandgap"
ESG == "ESG Score"
TOXICITY == "Toxicity"
CO2 == "CO2 footprint max (kg/kg)"
PRODUCTION == "Production (ton)"

\* criteria_options, in insertion order: <<column, direction>>
criteria_options ==
    << <<"Reserve (ton)", 1>>, <<PRODUCTION, 1>>, <<"HHI (USGS)", -1>>,
       <<ESG, -1>>, <<CO2, -1>>, <<"Embodied energy max (MJ/kg)", -1>>,
       <<"Water usage max (l/kg)", -1>>, <<TOXICITY, -1>>,
       <<"Companionality", -1>> >>

\* the columns of the datasets (an empty DataFrame keeps its columns)
DataColumns == {"Name", BANDGAP, ESG, TOXICITY, CO2, PRODUCTION}

Columns(frame) == IF frame = <<>> THEN DataColumns ELSE DOMAIN frame[1] \ {"idx"}

\* a dict of range rules with no key
EmptyDict == [key \in {} |-> <<0, 0>>]

\* variant: the mapping is replaced by upd
Update_replace(flt, upd) == upd

\* dict.update: the keys of upd replace or extend those of flt
Update(flt, upd) == upd @@ flt

\* available_criteria: the criteria_options whose column the frame has
available_criteria(frame) ==
    SelectSeq(criteria_options, LAMBDA c : c[1] \in Columns(frame))

criteria_names(frame) ==
    [c \in 1..Len(available_criteria(frame)) |-> available_criteria(frame)[c][1]]

\* types = np.array([available_criteria[k] for k in available_criteria])
criteria_types(frame) ==
    [c \in 1..Len(available_criteria(frame)) |-> available_criteria(frame)[c][2]]

\* filtered_df[list(available_criteria.keys())].values
criteria_matrix(frame) ==
    [i \in 1..Len(frame) |->
        [c \in 1..Len(criteria_names(frame)) |-> frame[i][criteria_names(frame)[c]]]]

(***************************************************************************)
(* filter_dataframe: the body of the memoized function                     *)
(***************************************************************************)
NoNames == [given |-> FALSE, set |-> {}]
SomeNames(S) == [given |-> TRUE, set |-> S]

ColMin(frame, col) == SetMin({frame[i][col] : i \in DOMAIN frame})
ColMax(frame, col) == SetMax({frame[i][col] : i \in DOMAIN frame})

\* filters.get(col, (_df[col].min(), _df[col].max()))
RangeOf(frame, flt, col) ==
    IF col \in DOMAIN flt THEN flt[col]
    ELSE <<ColMin(frame, col), ColMax(frame, col)>>

\* variant: inclusive='left'
between_left(x, lo, hi) == lo <= x /\ x < hi

\* Series.between(lo, hi, inclusive='both') for one value
between(x, lo, hi) == lo <= x /\ x <= hi

filter_dataframe(frame, flt, selected_names) ==
    LET bandgap_range == RangeOf(frame, flt, BANDGAP)
        esg_range == RangeOf(frame, flt, ESG)
        toxicity_range == RangeOf(frame, flt, TOXICITY)
        co2_range == RangeOf(frame, flt, CO2)
        filtered ==
            SelectSeq(frame, LAMBDA r :
                /\ between(r[BANDGAP], bandgap_range[1], bandgap_range[2])
                /\ between(r[ESG], esg_range[1], esg_range[2])
                /\ between(r[TOXICITY], toxicity_range[1], toxicity_range[2])
                /\ between(r[CO2], co2_range[1], co2_range[2]))
    IN  IF selected_names.given
        THEN SelectSeq(filtered, LAMBDA r : r["Name"] \in selected_names.set)
        ELSE filtered

(***************************************************************************)
(* Manual weights (MCDM page, "Normalize weights")                         *)
(***************************************************************************)
\* a vector of floats nums[c]/den, in lowest terms
WeightVec(nums, den) ==
    LET g == GCD(GCDSeq(nums), den)
    IN  [num |-> [c \in DOMAIN nums |-> nums[c] \div g], den |-> den \div g]

\* variant: the all-zero fallback forgets to divide by the criteria count
normalize_weights_ones(weights) ==
    IF SumSeq(weights) = 0
    THEN WeightVec([c \in DOMAIN weights |-> 1], 1)
    ELSE WeightVec(weights, SumSeq(weights))

normalize_weights(weights) ==
    IF SumSeq(weights) = 0
    THEN WeightVec([c \in DOMAIN weights |-> 1], Len(weights))
    ELSE WeightVec(weights, SumSeq(weights))

(***************************************************************************)
(* pymcdm.helpers.rankdata(a, reverse) followed by .astype(int)            *)
(***************************************************************************)
\* variant: the reverse flag is dropped, the values are ranked ascending
SortsBefore_ascending(a, j, i, reverse) ==
    IF IsNaN(a[i]) THEN ~IsNaN(a[j]) \/ j < i
    ELSE Less(a[j], a[i])

\* a[j] sorts strictly before a[i] in np.argsort(a * -1) (reverse) or
\* np.argsort(a); nan sorts last, and nan values keep their positions
SortsBefore(a, j, i, reverse) ==
    IF IsNaN(a[i]) THEN ~IsNaN(a[j]) \/ j < i
    ELSE IF reverse THEN Less(a[i], a[j]) ELSE Less(a[j], a[i])

\* the average rank .5 * (count[dense] + count[dense - 1] + 1)
rankdata(a, reverse) ==
    [i \in DOMAIN a |->
        LET before == Cardinality({j \in DOMAIN a : SortsBefore(a, j, i, reverse)})
            same == Cardinality({j \in DOMAIN a : j = i \/ FloatEq(a[j], a[i])})
        IN  Frac((before + same) + before + 1, 2)]

\* variant: the average rank is rounded half up instead of truncated
astype_int_round(r) == [i \in DOMAIN r |-> (2 * r[i].n + r[i].d) \div (2 * r[i].d)]

\* ndarray.astype(int) of a positive float: truncation
astype_int(r) == [i \in DOMAIN r |-> r[i].n \div r[i].d]

(***************************************************************************)
(* pymcdm TOPSIS() called with (matrix, weights, types)                    *)
(***************************************************************************)
ColVals(matrix, c) == {matrix[i][c] : i \in DOMAIN matrix}

\* max - min of a column, 1 for a constant column (normalized to all ones)
ColSpan(matrix, c) ==
    LET r == SetMax(ColVals(matrix, c)) - SetMin(ColVals(matrix, c))
    IN  IF r = 0 THEN 1 ELSE r

\* variant: cost criteria are normalized like benefit criteria
minmax_normalization_benefit(matrix, i, c, cost) ==
    IF SetMax(ColVals(matrix, c)) = SetMin(ColVals(matrix, c)) THEN 1
    ELSE matrix[i][c] - SetMin(ColVals(matrix, c))

\* numerator of the min-max normalized entry (denominator ColSpan)
minmax_normalization(matrix, i, c, cost) ==
    IF SetMax(ColVals(matrix, c)) = SetMin(ColVals(matrix, c)) THEN 1
    ELSE IF cost THEN SetMax(ColVals(matrix, c)) - matrix[i][c]
    ELSE matrix[i][c] - SetMin(ColVals(matrix, c))

\* nmatrix * weights, every entry multiplied by weights.den * product of spans
weighted_matrix(matrix, weights, types) ==
    LET cols == DOMAIN types
        L == ProdSeq([c \in cols |-> ColSpan(matrix, c)])
    IN  [i \in DOMAIN matrix |-> [c \in cols |->
            weights.num[c] * minmax_normalization(matrix, i, c, types[c] = -1)
                * (L \div ColSpan(matrix, c))]]

SqDist(row, ref) == SumSeq([c \in DOMAIN row |-> (row[c] - ref[c]) * (row[c] - ref[c])])

topsis(matrix, weights, types) ==
    LET wm == weighted_matrix(matrix, weights, types)
        pis == [c \in DOMAIN types |-> SetMax({wm[i][c] : i \in DOMAIN wm})]
        nis == [c \in DOMAIN types |-> SetMin({wm[i][c] : i \in DOMAIN wm})]
    IN  \* Dm / (Dm + Dp)
        [i \in DOMAIN matrix |-> Closeness(SqDist(wm[i], nis), SqDist(wm[i], pis))]

(***************************************************************************)
(* pymcdm PROMETHEE_II('usual') called with (matrix, weights, types)       *)
(***************************************************************************)
\* the 'usual' preference function on the direction-scaled difference
usual(d) == IF d > 0 THEN 1 ELSE 0

\* pi[i, j], multiplied by weights.den
pref_index(matrix, weights, types, i, j) ==
    SumSeq([c \in DOMAIN types |->
        weights.num[c] * usual((matrix[i][c] - matrix[j][c]) * types[c])])

\* Fp = np.sum(pi, axis=1) / N with N = matrix.shape[0] - 1
leaving_flow(matrix, weights, types, i) ==
    FloatDiv(SumSeq([j \in DOMAIN matrix |-> pref_index(matrix, weights, types, i, j)]),
             weights.den * (Len(matrix) - 1))

\* variant: the entering flow is averaged over n rows instead of n - 1
entering_flow_n(matrix, weights, types, i) ==
    FloatDiv(SumSeq([j \in DOMAIN matrix |-> pref_index(matrix, weights, types, j, i)]),
             weights.den * Len(matrix))

\* Fm = np.sum(pi, axis=0) / N
entering_flow(matrix, weights, types, i) ==
    FloatDiv(SumSeq([j \in DOMAIN matrix |-> pref_index(matrix, weights, types, j, i)]),
             weights.den * (Len(matrix) - 1))

\* float subtraction; nan propagates
FloatSub(x, y) ==
    IF IsNaN(x) \/ IsNaN(y) THEN NaN
    ELSE Frac(x.n * y.d - y.n * x.d, x.d * y.d)

promethee(matrix, weights, types) ==
    [i \in DOMAIN matrix |->
        FloatSub(leaving_flow(matrix, weights, types, i),
                 entering_flow(matrix, weights, types, i))]

(***************************************************************************)
(* State                                                                   *)
(*   df, df1           load_final_database(), load_bandgap_database()      *)
(*   has_filters       'filters' in st.session_state                       *)
(*   filters           st.session_state.filters                            *)
(*   bandgap_selected  st.session_state.bandgap_selected ("absent" while   *)
(*                     the attribute does not exist)                       *)
(*   cache             the st.cache_data store of each memoized function   *)
(*   runs              the number of script runs of the session so far     *)
(*   view              what the last script run computed and rendered      *)
(*   call              a single library/helper call under test             *)
(***************************************************************************)
VARIABLES df, df1, has_filters, filters, bandgap_selected, cache, runs, view, call

vars == <<df, df1, has_filters, filters, bandgap_selected, cache, runs, view, call>>

session == <<has_filters, filters, bandgap_selected>>

(***************************************************************************)
(* Bounds                                                                  *)
(***************************************************************************)
\* script runs of one session
MaxRuns == 4
\* criteria count, row count and largest value of the helper-call inputs
MaxCriteria == 3
MaxRows == 4
MaxVal == 2
PromRows == 3
PromVal == 1
PromCriteria == 2
\* rows and cell values of the frames filter_dataframe is applied to twice
FilterRows == 2
FilterVal == 1
\* largest importance score of the st.slider(.., 0, 5, 3) weight sliders
MaxScore == 5

(***************************************************************************)
(* st.cache_data                                                           *)
(***************************************************************************)
\* one store per memoized function: a set of [key, value] entries, never
\* evicted (no max_entries, no ttl)
EmptyCache ==
    [filter_dataframe |-> {}, run_topsis |-> {}, run_promethee |-> {},
     create_full_output |-> {}]

Hit(entries, key) == \E e \in entries : e.key = key

Cached(entries, key) == (CHOOSE e \in entries : e.key = key).value

Store(entries, key, value) == entries \cup {[key |-> key, value |-> value]}

\* the value a memoized call returns and the store it leaves behind
Memo(entries, key, fresh) ==
    IF Hit(entries, key)
    THEN [out |-> Cached(entries, key), store |-> entries]
    ELSE [out |-> fresh, store |-> Store(entries, key, fresh)]

\* cache keys: st.cache_data hashes every argument whose name has no
\* leading underscore
\* variant: the rule mapping is left out of the key as well
filter_dataframe_key_names(frame, flt, selected_names) == <<selected_names>>

filter_dataframe_key(frame, flt, selected_names) == <<flt, selected_names>>

\* variant: the weights are left out of the key (a leading underscore)
run_topsis_key_no_weights(matrix, weights, types) == <<matrix, types>>

run_topsis_key(matrix, weights, types) == <<matrix, weights, types>>

run_promethee_key(matrix, weights, types) == <<matrix, weights, types>>

create_full_output_key(filtered_df, results_df, weights_df) ==
    <<filtered_df, results_df, weights_df>>

(***************************************************************************)
(* The datasets.  final_database.xlsx and bandgap_database.xlsx are not    *)
(* part of the repository; the model runs on small samples with the        *)
(* columns the pages read.  Index labels are those of the RangeIndex.      *)
(***************************************************************************)
Row(i, name, bandgap, esg, toxicity, co2, production) ==
    ("idx" :> i) @@ ("Name" :> name) @@ (BANDGAP :> bandgap) @@ (ESG :> esg)
        @@ (TOXICITY :> toxicity) @@ (CO2 :> co2) @@ (PRODUCTION :> production)

FinalDatabase ==
    << Row(0, "TiO2", 1, 0, 0, 1, 1),
       Row(1, "ZnO",  2, 1, 1, 0, 2),
       Row(2, "CdS",  1, 1, 0, 0, 2) >>

BandgapDatabase ==
    << Row(0, "TiO2", 2, 0, 0, 0, 1),
       Row(1, "ZnO",  2, 1, 0, 1, 1),
       Row(2, "Si",   1, 0, 1, 0, 2) >>

(***************************************************************************)
(* Widget values.  A script run reads its widgets; the sets of values the  *)
(* user moves them through are gathered in a record, one per               *)
(* specification.                                                          *)
(***************************************************************************)
\* the weight sliders (0..5, default 3), one per criterion
DefaultScores(k) == [c \in 1..k |-> 3]
ZeroScores(k) == [c \in 1..k |-> 0]
SkewedScores(k) == [c \in 1..k |-> IF c = 1 THEN 5 ELSE IF c = 2 THEN 1 ELSE 0]

\* the bandgap window, the ESG slider, the method and the weighting are moved
Widgets ==
    [bandgap |-> {<<0, 0>>, <<1, 1>>, <<2, 2>>, <<0, 2>>},
     esg |-> {<<0, 1>>, <<0, 0>>},
     toxicity |-> {<<0, 1>>},
     co2 |-> {<<0, 1>>},
     production |-> {<<1, 2>>},
     names |-> {{}},
     methods |-> {"TOPSIS", "PROMETHEE"},
     weighting |-> {"Entropy Weighting", "Manual Weights"},
     scores |-> {"default"}]

\* every range slider and the material selection are moved
FilterWidgets ==
    [bandgap |-> {<<0, 0>>, <<1, 1>>, <<0, 2>>},
     esg |-> {<<0, 1>>, <<0, 0>>},
     toxicity |-> {<<0, 1>>},
     co2 |-> {<<0, 1>>},
     production |-> {<<1, 2>>, <<2, 2>>},
     names |-> {{}, {"TiO2"}},
     methods |-> {"TOPSIS"},
     weighting |-> {"Manual Weights"},
     scores |-> {"default"}]

\* the method, the weighting and the weight sliders are moved
RankingWidgets ==
    [bandgap |-> {<<1, 1>>, <<2, 2>>},
     esg |-> {<<0, 1>>},
     toxicity |-> {<<0, 1>>},
     co2 |-> {<<0, 1>>},
     production |-> {<<1, 2>>},
     names |-> {{}},
     methods |-> {"TOPSIS", "PROMETHEE"},
     weighting |-> {"Entropy Weighting", "Manual Weights"},
     scores |-> {"default", "skewed"}]

\* the bandgap window and the Toxicity slider (step 1.0) are moved
ReportWidgets ==
    [bandgap |-> {<<1, 1>>, <<2, 2>>},
     esg |-> {<<0, 1>>},
     toxicity |-> {<<0, 1>>, <<0, 0>>},
     co2 |-> {<<0, 1>>},
     production |-> {<<1, 2>>},
     names |-> {{}},
     methods |-> {"TOPSIS", "PROMETHEE"},
     weighting |-> {"Manual Weights"},
     scores |-> {"default"}]

Scores(choice, k) ==
    IF choice = "default" THEN DefaultScores(k)
    ELSE IF choice = "zero" THEN ZeroScores(k) ELSE SkewedScores(k)

\* pymcdm.weights.entropy_weights(matrix): a weight vector that depends on
\* the matrix only (ncols is matrix.shape[1]); its logarithms are not
\* computed here, the result is left open among these vectors
entropy_weights(matrix, ncols) ==
    { WeightVec([c \in 1..ncols |-> 1], ncols),
      WeightVec([c \in 1..ncols |-> IF c = ncols THEN 2 ELSE 1], ncols + 1) }

\* what a script run shows before any page has rendered anything
NoReport ==
    [value_col |-> "", full_data |-> <<>>, rankings |-> <<>>,
     filter_settings |-> EmptyDict]

NoView ==
    [page |-> "", clicked |-> "none",
     filter_args |-> [frame |-> "", filters |-> EmptyDict, names |-> NoNames],
     filtered |-> <<>>, warning |-> FALSE, config |-> FALSE,
     run_button |-> FALSE, method |-> "", weights |-> WeightVec(<<1>>, 1),
     ranked |-> FALSE, matrix |-> <<>>, scores |-> <<>>, ranks |-> <<>>,
     results |-> <<>>, report |-> NoReport]

\* no helper call is under test while the dashboard runs
NoCall == [fn |-> "", args |-> <<>>, done |-> TRUE, out |-> <<>>]

(***************************************************************************)
(* The results frame and the report                                        *)
(***************************************************************************)
\* variant: the empty guard never fires
empty_never(frame) == FALSE

\* DataFrame.empty
empty(frame) == Len(frame) = 0

\* pd.DataFrame({'Material': filtered_df['Name'], value_col: values,
\* 'Rank': ranks}): the index is that of the Name series, the two arrays
\* are attached by position
results_frame(filtered_df, values, ranks) ==
    [p \in DOMAIN filtered_df |->
        [idx |-> filtered_df[p]["idx"], Material |-> filtered_df[p]["Name"],
         Value |-> values[p], Rank |-> ranks[p]]]

\* DataFrame.sort_values('Rank'): the default sort is not stable, so rows
\* of equal rank may come out in any order
sort_values(rows) ==
    { [p \in DOMAIN rows |-> rows[perm[p]]] :
        perm \in {q \in Permutations(DOMAIN rows) :
                    \A x, y \in DOMAIN rows : x < y => rows[q[x]].Rank <= rows[q[y]].Rank} }

\* variant: the sorted results frame has lost its index (reset_index), so
\* the label of a row is looked up among the positions of the sorted rows
column_by_position(results_rows, label) ==
    IF label + 1 \in DOMAIN results_rows THEN results_rows[label + 1]
    ELSE [idx |-> label, Material |-> "", Value |-> NaN, Rank |-> 0]

\* full_data[col] = results_df[col]: assignment of a Series aligns on the
\* index label
column_by_index(results_rows, label) ==
    CHOOSE r \in Range(results_rows) : r.idx = label

\* weights_df, up to the order of its rows
weights_frame(names, weights, types) ==
    [Criterion |-> names, Weight |-> weights, Direction |-> types]

\* the body of create_full_output; session_filters is the ambient
\* st.session_state.filters it reads
create_full_output(filtered_df, results_df, weights_df, session_filters) ==
    [value_col |-> IF results_df.value_col = "Score"
                   THEN "TOPSIS_Score" ELSE "PROMETHEE_Net_Flow",
     full_data |-> [p \in DOMAIN filtered_df |->
        [idx |-> filtered_df[p]["idx"], Name |-> filtered_df[p]["Name"],
         Value |-> column_by_index(results_df.rows, filtered_df[p]["idx"]).Value,
         Rank |-> column_by_index(results_df.rows, filtered_df[p]["idx"]).Rank]],
     rankings |-> results_df.rows,
     filter_settings |-> session_filters]

(***************************************************************************)
(* One action per script run of main(): the selected page, the widget      *)
(* values and the button that triggered the run are its inputs.  A button  *)
(* can only be clicked if the previous run rendered it.                    *)
(***************************************************************************)
Init ==
    /\ df = FinalDatabase
    /\ df1 = BandgapDatabase
    /\ has_filters = FALSE
    /\ filters = EmptyDict
    /\ bandgap_selected = "absent"
    /\ cache = EmptyCache
    /\ runs = 0
    /\ view = NoView
    /\ call = NoCall

\* the start of a script run
Rerun ==
    /\ runs < MaxRuns
    /\ runs' = runs + 1

Home ==
    /\ Rerun
    /\ view' = [NoView EXCEPT !.page = "Home"]
    /\ UNCHANGED <<df, df1, has_filters, filters, bandgap_selected, cache, call>>

BandgapAnalysis(W) ==
    \E esg_range \in W.esg, toxicity_range \in W.toxicity,
       co2_range \in W.co2, selected_names \in W.names :
        LET flt == (ESG :> esg_range) @@ (TOXICITY :> toxicity_range)
                       @@ (CO2 :> co2_range)
            names == IF selected_names # {} THEN SomeNames(selected_names) ELSE NoNames
            call_filter == Memo(cache.filter_dataframe,
                                filter_dataframe_key(df1, flt, names),
                                filter_dataframe(df1, flt, names))
        IN  /\ Rerun
            /\ cache' = [cache EXCEPT !.filter_dataframe = call_filter.store]
            /\ view' = [NoView EXCEPT
                           !.page = "Bandgap Analysis",
                           !.filter_args = [frame |-> "df1", filters |-> flt, names |-> names],
                           !.filtered = call_filter.out,
                           !.warning = (Len(call_filter.out) = 0)]
            /\ UNCHANGED <<df, df1, has_filters, filters, bandgap_selected, call>>

CustomAnalysis(W) ==
    \E clicked \in {"none", "apply"} :
    \* the sliders are read only by the Apply Filters branch
    \E bandgap_range \in IF clicked = "apply" THEN W.bandgap ELSE {<<0, 0>>},
       esg_range \in IF clicked = "apply" THEN W.esg ELSE {<<0, 0>>},
       toxicity_range \in IF clicked = "apply" THEN W.toxicity ELSE {<<0, 0>>},
       production_range \in IF clicked = "apply" THEN W.production ELSE {<<0, 0>>} :
        LET init == IF has_filters THEN filters ELSE EmptyDict
            flt == IF clicked = "apply"
                   THEN Update(init, (BANDGAP :> bandgap_range) @@ (ESG :> esg_range)
                                  @@ (TOXICITY :> toxicity_range)
                                  @@ (PRODUCTION :> production_range))
                   ELSE init
            call_filter == Memo(cache.filter_dataframe,
                                filter_dataframe_key(df, flt, NoNames),
                                filter_dataframe(df, flt, NoNames))
        IN  /\ Rerun
            /\ clicked = "apply" => view.page = "Custom Analysis"
            /\ has_filters' = TRUE
            /\ filters' = flt
            /\ IF DOMAIN flt # {}
               THEN /\ cache' = [cache EXCEPT !.filter_dataframe = call_filter.store]
                    /\ view' = [NoView EXCEPT
                                   !.page = "Custom Analysis",
                                   !.clicked = clicked,
                                   !.filter_args = [frame |-> "df", filters |-> flt,
                                                    names |-> NoNames],
                                   !.filtered = call_filter.out,
                                   !.warning = empty(call_filter.out)]
               ELSE /\ cache' = cache
                    /\ view' = [NoView EXCEPT !.page = "Custom Analysis",
                                              !.clicked = clicked]
            /\ UNCHANGED <<df, df1, bandgap_selected, call>>

\* the ranking step of a Run Analysis click: the memoized method call, the
\* rank step and the unsorted results frame
Ranking(mcdm_method, filtered_df, weights) ==
    LET matrix == criteria_matrix(filtered_df)
        types == criteria_types(filtered_df)
        run == IF mcdm_method = "TOPSIS"
               THEN Memo(cache.run_topsis, run_topsis_key(matrix, weights, types),
                         topsis(matrix, weights, types))
               ELSE Memo(cache.run_promethee, run_promethee_key(matrix, weights, types),
                         promethee(matrix, weights, types))
        ranks == astype_int(rankdata(run.out, TRUE))
    IN  [matrix |-> matrix, scores |-> run.out, ranks |-> ranks, store |-> run.store,
         rows |-> results_frame(filtered_df, run.out, ranks)]

\* "Weight assignment": the entropy weights of the matrix, or the
\* normalized weight sliders
Weights(W, mcdm_method, weighting_method, filtered_df) ==
    IF mcdm_method = "TOPSIS" /\ weighting_method = "Entropy Weighting"
    THEN entropy_weights(criteria_matrix(filtered_df), Len(available_criteria(filtered_df)))
    ELSE {normalize_weights(Scores(choice, Len(available_criteria(filtered_df)))) :
            choice \in W.scores}

MCDMAnalysis(W) ==
    \E clicked \in {"none", "apply", "run"} :
    \* the bandgap widgets are read only by the Apply Bandgap Filter branch
    \E bandgap_range \in IF clicked = "apply" THEN W.bandgap ELSE {<<0, 0>>} :
        LET init_filters == IF has_filters THEN filters ELSE EmptyDict
            init_selected == IF has_filters THEN bandgap_selected ELSE "False"
            applied == IF clicked = "apply"
                       THEN Update(init_filters, BANDGAP :> bandgap_range)
                       ELSE init_filters
            selected == IF clicked = "apply" THEN "True" ELSE init_selected
        IN  /\ Rerun
            /\ clicked = "apply" => view.page = "MCDM Analysis"
            /\ clicked = "run" => view.page = "MCDM Analysis" /\ view.run_button
            /\ has_filters' = TRUE
            /\ bandgap_selected' = selected
            /\ IF selected # "True"
               THEN /\ filters' = applied
                    /\ cache' = cache
                    /\ view' = [NoView EXCEPT !.page = "MCDM Analysis",
                                              !.clicked = clicked]
               ELSE \E esg_range \in W.esg, toxicity_range \in W.toxicity,
                       production_range \in W.production,
                       mcdm_method \in W.methods :
                    \* the weighting radio exists for TOPSIS only
                    \E weighting_method \in IF mcdm_method = "TOPSIS"
                                            THEN W.weighting ELSE {""} :
                    LET flt == Update(applied, (ESG :> esg_range)
                                   @@ (TOXICITY :> toxicity_range)
                                   @@ (PRODUCTION :> production_range))
                    IN
                    \E call_filter \in {Memo(cache.filter_dataframe,
                                             filter_dataframe_key(df, flt, NoNames),
                                             filter_dataframe(df, flt, NoNames))} :
                    LET filtered_df == call_filter.out
                        shown == [NoView EXCEPT
                                     !.page = "MCDM Analysis",
                                     !.clicked = clicked,
                                     !.filter_args = [frame |-> "df", filters |-> flt,
                                                      names |-> NoNames],
                                     !.filtered = filtered_df,
                                     !.config = TRUE,
                                     !.method = mcdm_method]
                    IN  /\ filters' = flt
                        /\ IF empty(filtered_df)
                           THEN /\ cache' = [cache EXCEPT
                                                !.filter_dataframe = call_filter.store]
                                /\ view' = [shown EXCEPT !.warning = TRUE]
                           ELSE \E weights \in Weights(W, mcdm_method, weighting_method,
                                                        filtered_df) :
                                IF clicked # "run"
                                THEN /\ cache' = [cache EXCEPT
                                                     !.filter_dataframe = call_filter.store]
                                     /\ view' = [shown EXCEPT !.run_button = TRUE,
                                                              !.weights = weights]
                                ELSE \E rk \in {Ranking(mcdm_method, filtered_df, weights)} :
                                     \E rows \in sort_values(rk.rows) :
                                     LET weights_df ==
                                             weights_frame(criteria_names(filtered_df),
                                                           weights,
                                                           criteria_types(filtered_df))
                                         results ==
                                             [value_col |-> IF mcdm_method = "TOPSIS"
                                                            THEN "Score" ELSE "Net Flow",
                                              rows |-> rows]
                                     IN  \E report \in
                                             {Memo(cache.create_full_output,
                                                   create_full_output_key(
                                                       filtered_df, results, weights_df),
                                                   create_full_output(
                                                       filtered_df, results, weights_df, flt))} :
                                         /\ cache' =
                                              [cache EXCEPT
                                                 !.filter_dataframe = call_filter.store,
                                                 !.run_topsis =
                                                     IF mcdm_method = "TOPSIS"
                                                     THEN rk.store ELSE @,
                                                 !.run_promethee =
                                                     IF mcdm_method = "TOPSIS"
                                                     THEN @ ELSE rk.store,
                                                 !.create_full_output = report.store]
                                         /\ view' = [shown EXCEPT
                                                        !.run_button = TRUE,
                                                        !.weights = weights,
                                                        !.ranked = TRUE,
                                                        !.matrix = rk.matrix,
                                                        !.scores = rk.scores,
                                                        !.ranks = rk.ranks,
                                                        !.results = rows,
                                                        !.report = report.out]
            /\ UNCHANGED <<df, df1, call>>

Next ==
    \/ Home
    \/ BandgapAnalysis(Widgets)
    \/ CustomAnalysis(Widgets)
    \/ MCDMAnalysis(Widgets)

Spec == Init /\ [][Next]_vars

NextRanking ==
    \/ Home
    \/ BandgapAnalysis(RankingWidgets)
    \/ CustomAnalysis(RankingWidgets)
    \/ MCDMAnalysis(RankingWidgets)

SpecRanking == Init /\ [][NextRanking]_vars

NextFilters ==
    \/ Home
    \/ BandgapAnalysis(FilterWidgets)
    \/ CustomAnalysis(FilterWidgets)
    \/ MCDMAnalysis(FilterWidgets)

SpecFilters == Init /\ [][NextFilters]_vars

NextReport ==
    \/ Home
    \/ BandgapAnalysis(ReportWidgets)
    \/ CustomAnalysis(ReportWidgets)
    \/ MCDMAnalysis(ReportWidgets)

SpecReport == Init /\ [][NextReport]_vars

\* the dataset a filter call was given
Frame(tag) == IF tag = "df1" THEN df1 ELSE df

SatisfiesEveryRule(r, flt) ==
    \A key \in DOMAIN flt : between(r[key], flt[key][1], flt[key][2])

ExpectedSubset(frame, flt, names) ==
    SelectSeq(frame, LAMBDA r :
        SatisfiesEveryRule(r, flt) /\ (names.given => r["Name"] \in names.set))

(***************************************************************************)
(* C1 as stated: every filter_dataframe call of the pages returns exactly  *)
(* the rows that lie in the inclusive range of EVERY rule of the mapping   *)
(* passed in (Bandgap, ESG Score, Toxicity, CO2 footprint, Production) and *)
(* whose Name is in the name set, when one is given.                       *)
(***************************************************************************)
C1_EverySuppliedRule ==
    view.filter_args.frame # "" =>
        view.filtered = ExpectedSubset(Frame(view.filter_args.frame),
                                       view.filter_args.filters, view.filter_args.names)

(***************************************************************************)
(* C2: on the MCDM page run_topsis, run_promethee and the rank step are    *)
(* never invoked on a zero-row filtered set: when the filter leaves no row *)
(* the result is empty, the 'No materials match' warning is shown, no Run  *)
(* Analysis button is rendered and no ranking step is taken, whatever runs *)
(* preceded.                                                               *)
(***************************************************************************)
C2_NoRankingOnEmpty ==
    /\ view.ranked => (~empty(view.filtered) /\ Len(view.matrix) > 0
                        /\ Len(view.scores) > 0)
    /\ \A e \in cache.run_topsis \cup cache.run_promethee : Len(e.key[1]) > 0
    /\ (view.page = "MCDM Analysis" /\ view.config
          /\ empty(filter_dataframe(df, filters, NoNames))) =>
            (empty(view.filtered) /\ view.warning /\ ~view.run_button /\ ~view.ranked)
    /\ (view.page = "MCDM Analysis" /\ view.config /\ ~view.warning) =>
            ~empty(view.filtered)

\* rankings were run earlier in the session, then the filters exclude every
\* row and the warning is shown
C2_Witness ==
    /\ view.page = "MCDM Analysis"
    /\ view.config
    /\ view.warning
    /\ empty(view.filtered)
    /\ cache.run_topsis \cup cache.run_promethee # {}

(***************************************************************************)
(* C3 as stated: Run Analysis with PROMETHEE on a single surviving         *)
(* material ends in a controlled InsufficientData outcome (no flows, no    *)
(* ranks) or in a net flow defined as 0; the 1/(n-1) division by zero is   *)
(* never reached.                                                          *)
(***************************************************************************)
C3_SingleRowGuarded ==
    (view.page = "MCDM Analysis" /\ view.clicked = "run"
        /\ view.method = "PROMETHEE" /\ Len(view.filtered) = 1) =>
            (~view.ranked \/ view.scores = <<Frac(0, 1)>>)

\* the method applied afresh, without the memo store
Fresh(mcdm_method, matrix, weights, types) ==
    IF mcdm_method = "TOPSIS" THEN topsis(matrix, weights, types)
    ELSE promethee(matrix, weights, types)

C10_ScoresStayAttached ==
    view.ranked =>
        \A scores \in {Fresh(view.method, criteria_matrix(view.filtered), view.weights,
                              criteria_types(view.filtered))} :
        \A ranks \in {astype_int(rankdata(scores, TRUE))} :
        LET n == Len(view.filtered)
        IN  /\ Len(view.results) = n
            /\ Len(view.report.full_data) = n
            /\ Len(view.report.rankings) = n
            /\ \A x, y \in 1..n : x < y => view.results[x].Rank <= view.results[y].Rank
            /\ \A p \in 1..n :
                  LET name == view.filtered[p]["Name"]
                  IN  /\ \E r \in Range(view.results) : r.Material = name
                      /\ \A r \in Range(view.results) \cup Range(view.report.rankings) :
                            r.Material = name =>
                                (r.Value = scores[p] /\ r.Rank = ranks[p])
                      /\ view.report.full_data[p].Name = name
                      /\ view.report.full_data[p].Value = scores[p]
                      /\ view.report.full_data[p].Rank = ranks[p]

\* the surviving rows are 0 and 2 of the dataset and the sort puts row 2 first
C10_Witness ==
    /\ view.ranked
    /\ [p \in DOMAIN view.filtered |-> view.filtered[p]["idx"]] = <<0, 2>>
    /\ view.results[1].idx = 2
    /\ view.results[1].Rank < view.results[2].Rank
    /\ view.report.full_data[2].Rank = 1

(***************************************************************************)
(* Helper calls on their own: the inputs are drawn in the initial state    *)
(* and one action applies the function.  The dashboard is not running.     *)
(***************************************************************************)
NotRunning ==
    /\ df = <<>>
    /\ df1 = <<>>
    /\ has_filters = FALSE
    /\ filters = EmptyDict
    /\ bandgap_selected = "absent"
    /\ cache = EmptyCache
    /\ runs = 0
    /\ view = NoView

Pending(fn, args) == [fn |-> fn, args |-> args, done |-> FALSE, out |-> <<>>]

Return(fn, out) ==
    /\ call.fn = fn
    /\ ~call.done
    /\ call' = [call EXCEPT !.done = TRUE, !.out = out]
    /\ UNCHANGED <<df, df1, has_filters, filters, bandgap_selected, cache, runs, view>>

Done(fn) == call.fn = fn /\ call.done

\* --- manual weights ------------------------------------------------------
InitWeights ==
    /\ NotRunning
    /\ \E k \in 1..MaxCriteria : \E s \in [1..k -> 0..MaxScore] :
          call = Pending("normalize_weights", s)

CallWeights == Return("normalize_weights", normalize_weights(call.args))

SpecWeights == InitWeights /\ [][CallWeights]_vars

\* --- rankdata(values, reverse=True).astype(int) --------------------------
RankVals == {Frac(v, 1) : v \in 0..MaxVal} \cup {NaN}

InitRank ==
    /\ NotRunning
    /\ \E n \in 1..MaxRows : \E a \in [1..n -> RankVals] :
          call = Pending("rankdata", a)

CallRank == Return("rankdata", astype_int(rankdata(call.args, TRUE)))

SpecRank == InitRank /\ [][CallRank]_vars

\* --- TOPSIS followed by the rank step ------------------------------------
\* matrix entries in units of 0.5: 2, 3, 4 stand for 1, 1.5, 2
ScenarioVals == {2, 3, 4}

ScenarioMatrix == << <<2, 4>>, <<4, 2>>, <<3, 3>> >>

ScenarioWeights == WeightVec(<<1, 1>>, 2)

ScenarioTypes == <<1, -1>>

InitTopsis ==
    /\ NotRunning
    /\ \E m \in [1..3 -> [1..2 -> ScenarioVals]] :
          call = Pending("topsis", [matrix |-> m, weights |-> ScenarioWeights,
                                    types |-> ScenarioTypes])

CallTopsis ==
    LET scores == topsis(call.args.matrix, call.args.weights, call.args.types)
    IN  Return("topsis", [scores |-> scores,
                          ranks |-> astype_int(rankdata(scores, TRUE))])

SpecTopsis == InitTopsis /\ [][CallTopsis]_vars

\* --- PROMETHEE II --------------------------------------------------------
InitPromethee ==
    /\ NotRunning
    /\ \E n \in 1..PromRows :
       \E m \in [1..n -> [1..PromCriteria -> 0..PromVal]] :
       \E s \in [1..PromCriteria -> 0..PromVal] :
       \E t \in [1..PromCriteria -> {1, -1}] :
          call = Pending("promethee", [matrix |-> m, weights |-> normalize_weights(s),
                                       types |-> t])

CallPromethee ==
    Return("promethee", promethee(call.args.matrix, call.args.weights, call.args.types))

SpecPromethee == InitPromethee /\ [][CallPromethee]_vars

(***************************************************************************)
(* C4: for every vector of manual importance scores in 0..5, the weight    *)
(* vector has one entry per criterion, every entry is >= 0, the entries    *)
(* sum to 1, it is uniform 1/k when all scores are zero and                *)
(* score_c / sum(scores) otherwise.                                        *)
(***************************************************************************)
C4_ManualWeights ==
    Done("normalize_weights") =>
        LET s == call.args
            w == call.out
            k == Len(s)
        IN  /\ Len(w.num) = k
            /\ w.den > 0
            /\ \A c \in 1..k : w.num[c] >= 0
            /\ SumSeq(w.num) = w.den
            /\ SumSeq(s) = 0 => \A c \in 1..k : w.num[c] * k = w.den
            /\ SumSeq(s) # 0 => \A c \in 1..k : w.num[c] * SumSeq(s) = s[c] * w.den

\* the all-zero fallback on at least two criteria, and a skewed vector
C4_Witness ==
    /\ Done("normalize_weights")
    /\ Len(call.args) >= 2
    /\ SumSeq(call.args) = 0
    /\ call.out.den = Len(call.args)

(***************************************************************************)
(* C5: the ranks rankdata(values, reverse=True).astype(int) gives are a    *)
(* monotonic non-increasing function of the value: value_i > value_j       *)
(* implies rank_i <= rank_j, and value_i = value_j implies rank_i = rank_j.*)
(***************************************************************************)
C5_RankMonotonic ==
    Done("rankdata") =>
        \A i, j \in DOMAIN call.args :
            /\ Less(call.args[j], call.args[i]) => call.out[i] <= call.out[j]
            /\ FloatEq(call.args[i], call.args[j]) => call.out[i] = call.out[j]

\* a vector with a tie and a strictly smaller value has been ranked
C5_Witness ==
    /\ Done("rankdata")
    /\ \E i, j, l \in DOMAIN call.args :
          /\ i # j
          /\ FloatEq(call.args[i], call.args[j])
          /\ Less(call.args[l], call.args[i])
          /\ call.out[i] < call.out[l]

\* rows with a strictly greater value, and rows with the same value
Greater(a, i) == Cardinality({j \in DOMAIN a : Less(a[i], a[j])})
TieGroup(a, i) == Cardinality({j \in DOMAIN a : FloatEq(a[i], a[j])})

(***************************************************************************)
(* C6 as stated: every row's rank is 1 + the number of rows with a         *)
(* strictly greater score (standard competitive ranking), for every tie    *)
(* group size.                                                             *)
(***************************************************************************)
C6_Competitive ==
    Done("rankdata") =>
        \A i \in DOMAIN call.args :
            ~IsNaN(call.args[i]) => call.out[i] = 1 + Greater(call.args, i)

(***************************************************************************)
(* C6 amended: the rank of a row is the truncated average position of its  *)
(* tie group: 1 + the number of rows with a strictly greater score +       *)
(* floor((t - 1) / 2), where t is the number of rows sharing its score.    *)
(* It is the competitive rank exactly for tie groups of one or two rows.   *)
(***************************************************************************)
C6_TruncatedAverage ==
    Done("rankdata") =>
        \A i \in DOMAIN call.args :
            ~IsNaN(call.args[i]) =>
                call.out[i] = 1 + Greater(call.args, i)
                                + ((TieGroup(call.args, i) - 1) \div 2)

\* three rows share the highest score and all receive rank 2
C6_Witness ==
    /\ Done("rankdata")
    /\ \E i \in DOMAIN call.args :
          /\ ~IsNaN(call.args[i])
          /\ Greater(call.args, i) = 0
          /\ TieGroup(call.args, i) = 3
          /\ call.out[i] = 2

(***************************************************************************)
(* C7 as stated: for matrix [[1,2],[2,1],[1.5,1.5]], directions [+1,-1]    *)
(* and weights [0.5,0.5], TOPSIS and the rank step put rows 0 and 1 tied   *)
(* at rank 1 and row 2 at rank 3.                                          *)
(***************************************************************************)
C7_ScenarioTied ==
    (Done("topsis") /\ call.args.matrix = ScenarioMatrix) =>
        call.out.ranks = <<1, 1, 3>>

(***************************************************************************)
(* C7 amended: in that scenario row 1 (best on both criteria) has score 1  *)
(* and rank 1, row 2 has score 0.5 and rank 2, and row 0 (worst on both)   *)
(* has score 0 and rank 3.                                                 *)
(***************************************************************************)
C7_ScenarioRanks ==
    (Done("topsis") /\ call.args.matrix = ScenarioMatrix) =>
        /\ call.out.ranks = <<3, 1, 2>>
        /\ call.out.scores = <<Closeness(0, 1), Closeness(1, 0), Closeness(1, 1)>>

C7_Witness ==
    /\ Done("topsis")
    /\ call.args.matrix = ScenarioMatrix
    /\ call.args.weights = ScenarioWeights
    /\ call.args.types = ScenarioTypes

\* float addition; nan propagates
FloatAdd(x, y) ==
    IF IsNaN(x) \/ IsNaN(y) THEN NaN
    ELSE Frac(x.n * y.d + y.n * x.d, x.d * y.d)

RECURSIVE FloatSum(_)
FloatSum(s) == IF s = <<>> THEN Frac(0, 1) ELSE FloatAdd(Head(s), FloatSum(Tail(s)))

(***************************************************************************)
(* C8: for every matrix with n >= 2 rows, every weight vector and every    *)
(* direction vector, the PROMETHEE II net flows ('usual' preference        *)
(* function) sum to zero across all rows.                                  *)
(***************************************************************************)
C8_NetFlowsSumToZero ==
    (Done("promethee") /\ Len(call.args.matrix) >= 2) =>
        FloatSum(call.out) = Frac(0, 1)

\* at least two rows, and some row has a non-zero net flow
C8_Witness ==
    /\ Done("promethee")
    /\ Len(call.args.matrix) >= 2
    /\ \E i \in DOMAIN call.out : Less(Frac(0, 1), call.out[i])


\* --- filter_dataframe applied to its own result --------------------------
SampleNames == <<"TiO2", "ZnO", "CdS", "Si">>

\* inclusive ranges a range slider can return
Ranges == {r \in (0..FilterVal) \X (0..FilterVal) : r[1] <= r[2]}

\* rule mappings with or without a Bandgap rule and an ESG Score rule
RuleMaps ==
    {EmptyDict}
        \cup {BANDGAP :> b : b \in Ranges}
        \cup {ESG :> e : e \in Ranges}
        \cup {(BANDGAP :> b) @@ (ESG :> e) : b \in Ranges, e \in Ranges}

InitFilter ==
    /\ NotRunning
    /\ \E n \in 0..FilterRows :
       \E bg \in [1..n -> 0..FilterVal], es \in [1..n -> 0..FilterVal],
          tx \in [1..n -> 0..FilterVal], co \in [1..n -> 0..FilterVal] :
       \E flt \in RuleMaps :
       \E names \in {NoNames, SomeNames({"TiO2", "CdS"})} :
          call = Pending("filter_dataframe",
                    [frame |-> [i \in 1..n |->
                                   Row(i - 1, SampleNames[i], bg[i], es[i], tx[i], co[i], 1)],
                     filters |-> flt, names |-> names])

CallFilter ==
    \E once \in {filter_dataframe(call.args.frame, call.args.filters, call.args.names)} :
        Return("filter_dataframe",
               [once |-> once,
                twice |-> filter_dataframe(once, call.args.filters, call.args.names)])

SpecFilter == InitFilter /\ [][CallFilter]_vars

(***************************************************************************)
(* C11: filtering is idempotent: for every dataset, rule mapping and       *)
(* optional name set, filter_dataframe applied with the same rules to its  *)
(* own result returns the identical rows.                                  *)
(***************************************************************************)
C11_FilterIdempotent ==
    Done("filter_dataframe") => call.out.twice = call.out.once

\* a filter that dropped rows, kept some, and whose default range for the
\* ESG Score column (no rule given) is narrower on the result than on the
\* dataset
C11_Witness ==
    /\ Done("filter_dataframe")
    /\ call.out.once # <<>>
    /\ Len(call.out.once) < Len(call.args.frame)
    /\ ESG \notin DOMAIN call.args.filters
    /\ RangeOf(call.out.once, call.args.filters, ESG)
          # RangeOf(call.args.frame, call.args.filters, ESG)
    /\ call.out.twice = call.out.once

(***************************************************************************)
(* C12 as stated: the 'Filter Settings' sheet of the report a Run Analysis *)
(* hands to the download button shows the session filters in force in that *)
(* run; no sequence of filter changes followed by Run Analysis returns a   *)
(* memoized report whose Filter Settings differ from the session filters.  *)
(***************************************************************************)
C12_FilterSettingsCurrent ==
    view.ranked => view.report.filter_settings = filters

(***************************************************************************)
(* C13: although the memoized filter_dataframe is keyed on (filters,       *)
(* selected_names) only, over every interleaving of the Bandgap Analysis   *)
(* page (bandgap dataset) with the Custom Analysis and MCDM pages (final   *)
(* dataset) the subset a call returns equals a fresh filter of the dataset *)
(* passed in that call.                                                    *)
(***************************************************************************)
C13_ReturnsOwnDataset ==
    view.filter_args.frame # "" =>
        view.filtered = filter_dataframe(Frame(view.filter_args.frame),
                                         view.filter_args.filters, view.filter_args.names)

\* a Bandgap Analysis call while the store holds a result computed from the
\* final dataset for the same name set and the same ESG Score and Toxicity
\* ranges, the two results being different
C13_Witness ==
    /\ view.page = "Bandgap Analysis"
    /\ view.filter_args.frame = "df1"
    /\ view.filtered = filter_dataframe(df1, view.filter_args.filters,
                                        view.filter_args.names)
    /\ \E e \in cache.filter_dataframe :
          /\ BANDGAP \in DOMAIN e.key[1]
          /\ e.key[2] = view.filter_args.names
          /\ e.key[1][ESG] = view.filter_args.filters[ESG]
          /\ e.key[1][TOXICITY] = view.filter_args.filters[TOXICITY]
          /\ e.value = filter_dataframe(df, e.key[1], e.key[2])
          /\ e.value # view.filtered

\* (1), (2) and (4) of the session filter invariant, in one state
SessionFiltersConsistent ==
    /\ bandgap_selected = "True" => BANDGAP \in DOMAIN filters
    /\ DOMAIN filters # {} => BANDGAP \in DOMAIN filters
    /\ (view.config \/ view.run_button \/ view.ranked) =>
          (view.page = "MCDM Analysis" /\ bandgap_selected = "True")

\* (3): what a script run may do to the session
SessionFiltersGrow ==
    /\ bandgap_selected = "True" => bandgap_selected' = "True"
    /\ DOMAIN filters \subseteq DOMAIN filters'

(***************************************************************************)
(* C14: in every reachable state, after any sequence of page switches,     *)
(* 'Apply Filters' and 'Apply Bandgap Filter' clicks: bandgap_selected     *)
(* true implies the session filters hold a 'Bandgap' range; a non-empty    *)
(* session filter mapping holds 'Bandgap'; bandgap_selected never returns  *)
(* to false and no key is ever removed from the session filters; the MCDM  *)
(* configuration and the Run Analysis step are shown only while            *)
(* bandgap_selected is true.                                               *)
(***************************************************************************)
C14_SessionFilters ==
    []SessionFiltersConsistent /\ [][SessionFiltersGrow]_vars

\* an Apply Bandgap Filter click that replaced an earlier Bandgap rule (one
\* an earlier filter call was made with) and left the configuration shown
C14_Witness ==
    /\ view.page = "MCDM Analysis"
    /\ view.clicked = "apply"
    /\ bandgap_selected = "True"
    /\ view.config
    /\ DOMAIN filters = {BANDGAP, ESG, TOXICITY, PRODUCTION}
    /\ \E e \in cache.filter_dataframe :
          /\ BANDGAP \in DOMAIN e.key[1]
          /\ e.key[1][BANDGAP] # filters[BANDGAP]

====
